---------------------------- MODULE Spec2Model ----------------------------
(***************************************************************************)
(* Job supervisor of backend/main.py: the in-memory task registry `tasks`, *)
(* the launch endpoint run_daily_briefing_async, the status endpoint       *)
(* get_daily_briefing_status, the task id get_expected_report_filename,    *)
(* and the worker processes the supervisor launches; the worker script    *)
(* scripts/daily_briefing.py statement by statement; and the investment-   *)
(* report endpoint run_investment_report with its pipeline and its lookup  *)
(* of the newest report.                                                   *)
(*                                                                         *)
(* Strings are sequences of one-character strings, except the fixed        *)
(* literals of the source ("daily_briefing_", ".html", "/reports/", the    *)
(* message prefixes), which are one element each.                          *)
(***************************************************************************)
EXTENDS Integers, Sequences, FiniteSets, TLC

VARIABLES
    tasks,      \* main.py:20  dict task_id -> {"process", "start_time"}
    procs,      \* every worker process spawned so far, indexed by pid
    files,      \* names of the files present in reports_dir (main.py:24)
    config,     \* content of config.json (main.py:29)
    resp,       \* the response the last step sent (NoResp: it handled no request)
    threads,    \* the request handlers in flight (thread-pool handling)
    idq,        \* the pair of requests compared by the task-id check
    wrk,        \* one run of scripts/daily_briefing.py, statement by statement
    ctime,      \* os.path.getctime of the files of reports_dir (main.py:217)
    inv,        \* the investment-report handlers in flight (main.py:191-223)
    pipe        \* the stdout pipe of a worker (main.py:147): lines to come, lines held

vars == <<tasks, procs, files, config, resp, threads, idq, wrk, ctime, inv, pipe>>

-----------------------------------------------------------------------------
(* Bounds of the model *)

MaxProcs == 2       \* worker processes spawned in one behaviour
MaxTime == 1        \* latest reading of the clock, in seconds
MaxCtime == 1       \* latest ctime of a file of reports_dir, in clock ticks
MaxOutput == 4      \* units of output a worker prints, at most

-----------------------------------------------------------------------------
(* Strings and dates *)

Digits == <<"0", "1", "2", "3", "4", "5", "6", "7", "8", "9">>

IsDigit(c) == \E i \in 1..10 : Digits[i] = c

DigitValue(c) == (CHOOSE i \in 1..10 : Digits[i] = c) - 1

RECURSIVE NumValue(_)
NumValue(s) ==
    IF s = <<>> THEN 0
    ELSE 10 * NumValue(SubSeq(s, 1, Len(s) - 1)) + DigitValue(s[Len(s)])

AllDigits(s) == \A i \in 1..Len(s) : IsDigit(s[i])

\* s.split("-"): the fields of s between the hyphens
RECURSIVE SplitHyphen(_)
SplitHyphen(s) ==
    IF \A i \in 1..Len(s) : s[i] # "-" THEN <<s>>
    ELSE LET k == CHOOSE i \in 1..Len(s) :
                      s[i] = "-" /\ \A j \in 1..(i - 1) : s[j] # "-"
         IN  <<SubSeq(s, 1, k - 1)>> \o SplitHyphen(SubSeq(s, k + 1, Len(s)))

IsLeap(y) == (y % 4 = 0 /\ y % 100 # 0) \/ y % 400 = 0

DaysInMonth(y, m) ==
    IF m = 2 THEN (IF IsLeap(y) THEN 29 ELSE 28)
    ELSE IF m \in {4, 6, 9, 11} THEN 30 ELSE 31

NoDate == [ok |-> FALSE, year |-> 0, month |-> 0, day |-> 0]

\* datetime.strptime(s, "%Y-%m-%d"): %Y is exactly four digits, %m and %d
\* are one or two digits; the date must exist.  ok = FALSE is ValueError.
strptime(s) ==
    LET f == SplitHyphen(s)
    IN  IF Len(f) # 3 THEN NoDate
        ELSE IF ~(AllDigits(f[1]) /\ AllDigits(f[2]) /\ AllDigits(f[3])) THEN NoDate
        ELSE IF Len(f[1]) # 4 \/ Len(f[2]) \notin {1, 2} \/ Len(f[3]) \notin {1, 2}
             THEN NoDate
        ELSE LET y == NumValue(f[1])
                 m == NumValue(f[2])
                 d == NumValue(f[3])
             IN  IF y < 1 \/ m \notin 1..12 THEN NoDate
                 ELSE IF d < 1 \/ d > DaysInMonth(y, m) THEN NoDate
                 ELSE [ok |-> TRUE, year |-> y, month |-> m, day |-> d]

\* the decimal digits of n, zero-padded to w characters
RECURSIVE Pad(_, _)
Pad(n, w) ==
    IF w = 0 THEN <<>>
    ELSE Pad(n \div 10, w - 1) \o <<Digits[(n % 10) + 1]>>

\* the mutant drops the zero padding of month and day
RECURSIVE Unpadded(_)
Unpadded(n) ==
    IF n < 10 THEN <<Digits[n + 1]>>
    ELSE Unpadded(n \div 10) \o <<Digits[(n % 10) + 1]>>

strftime_nopad(d) == Pad(d.year, 4) \o Unpadded(d.month) \o Unpadded(d.day)

\* date.strftime("%Y%m%d")
strftime(d) == Pad(d.year, 4) \o Pad(d.month, 2) \o Pad(d.day, 2)

NoName == [ok |-> FALSE, name |-> <<>>]

\* the mutant builds the name from the strings as they came
get_expected_report_filename_unparsed(start_date_str, end_date_str) ==
    [ok |-> TRUE,
     name |-> <<"daily_briefing_">> \o start_date_str \o <<"_">> \o end_date_str
                  \o <<".html">>]

\* main.py:85-93.  ok = FALSE is the ValueError of strptime.
get_expected_report_filename(start_date_str, end_date_str) ==
    LET s == strptime(start_date_str)
        e == strptime(end_date_str)
    IN  IF ~s.ok \/ ~e.ok THEN NoName
        ELSE LET start_date_formatted == strftime(s)
                 end_date_formatted == strftime(e)
             IN  IF start_date_formatted = end_date_formatted
                 THEN [ok |-> TRUE,
                       name |-> <<"daily_briefing_">> \o start_date_formatted
                                    \o <<".html">>]
                 ELSE [ok |-> TRUE,
                       name |-> <<"daily_briefing_">> \o start_date_formatted
                                    \o <<"_">> \o end_date_formatted
                                    \o <<".html">>]

-----------------------------------------------------------------------------
(* Inputs *)

S(y, m, d) == y \o <<"-">> \o m \o <<"-">> \o d

Y2025 == <<"2", "0", "2", "5">>
Y2024 == <<"2", "0", "2", "4">>

\* date strings a client may send, each with the calendar date it denotes
\* (valid = FALSE: the string denotes no date)
DateTable ==
    { [str |-> S(Y2025, <<"0", "1">>, <<"1", "0">>), valid |-> TRUE,  date |-> <<2025, 1, 10>>],
      [str |-> S(Y2025, <<"1">>, <<"1", "0">>),      valid |-> TRUE,  date |-> <<2025, 1, 10>>],
      [str |-> S(Y2025, <<"0", "1">>, <<"1", "1">>), valid |-> TRUE,  date |-> <<2025, 1, 11>>],
      [str |-> S(Y2025, <<"1", "1">>, <<"0", "1">>), valid |-> TRUE,  date |-> <<2025, 11, 1>>],
      [str |-> S(Y2025, <<"1", "1">>, <<"1">>),      valid |-> TRUE,  date |-> <<2025, 11, 1>>],
      [str |-> S(Y2024, <<"0", "2">>, <<"2", "9">>), valid |-> TRUE,  date |-> <<2024, 2, 29>>],
      [str |-> S(Y2025, <<"0", "2">>, <<"2", "9">>), valid |-> FALSE, date |-> <<0, 0, 0>>],
      [str |-> S(Y2025, <<"1", "3">>, <<"0", "1">>), valid |-> FALSE, date |-> <<0, 0, 0>>],
      [str |-> Y2025 \o <<"0", "1", "1", "0">>,      valid |-> FALSE, date |-> <<0, 0, 0>>],
      [str |-> <<"2", "5">> \o <<"-", "0", "1", "-", "1", "0">>,
                                                      valid |-> FALSE, date |-> <<0, 0, 0>> ] }

D0110 == S(Y2025, <<"0", "1">>, <<"1", "0">>)
D0111 == S(Y2025, <<"0", "1">>, <<"1", "1">>)
DBad  == S(Y2025, <<"1", "3">>, <<"0", "1">>)
DBare == Y2025 \o <<"0", "1", "1", "0">>

\* bodies of DailyBriefingRequest (main.py:46-49) the clients send
Requests ==
    { [startDate |-> D0110, endDate |-> D0110, stockSource |-> "all"],
      [startDate |-> D0110, endDate |-> D0111, stockSource |-> "all"],
      [startDate |-> D0110, endDate |-> DBad,  stockSource |-> "all"],
      [startDate |-> DBare, endDate |-> D0110, stockSource |-> "all"] }

ValidRequests ==
    { r \in Requests : get_expected_report_filename(r.startDate, r.endDate).ok }

\* the request for the single day 2025-01-10
R0110 == [startDate |-> D0110, endDate |-> D0110, stockSource |-> "all"]

\* the same day asked for the stocks of the user's own list
\* (--stock-source custom, daily_briefing.py:65)
RCustom == [startDate |-> D0110, endDate |-> D0110, stockSource |-> "custom"]

\* the name of the report of the single day 2025-01-10
Id0110 == <<"daily_briefing_", "2", "0", "2", "5", "0", "1", "1", "0", ".html">>

\* task ids the clients poll
TaskIds ==
    { get_expected_report_filename(r.startDate, r.endDate).name : r \in ValidRequests }

\* config.json as the service reads it: the iFind access token, the API key of
\* the selected LLM provider (main.py:76,80-81), and the parameters of the
\* investment report (ticker, userInfo, reportPeriod; main.py:196-198), which
\* the model holds as one value
Token == <<"t0k3n">>
ApiKey == <<"sk-", "k3y">>
NoTicker == <<>>

OkConfig == [accessToken |-> Token, apiKey |-> ApiKey, ticker |-> NoTicker]

\* the contents of config.json the settings page saves with POST /api/config
Configs ==
    { OkConfig,
      [OkConfig EXCEPT !.accessToken = <<"YOUR_IFIND_TOKEN_HERE">>],
      [OkConfig EXCEPT !.apiKey = <<>>] }

-----------------------------------------------------------------------------
(* Responses *)

NoResp ==
    [op |-> "none", task_id |-> <<>>, code |-> 0, status |-> "", detail |-> <<>>,
     report_url |-> <<>>, elapsed |-> 0, pid |-> 0]

\* the response of the launch endpoint; pid is the worker it started (202) or
\* found running (409)
LaunchResp(task_id, code, status, pid) ==
    [op |-> "launch", task_id |-> task_id, code |-> code, status |-> status,
     detail |-> <<>>, report_url |-> <<>>, elapsed |-> 0, pid |-> pid]

\* the response of the status endpoint; pid is the worker whose entry the
\* handler read, 0 when the id had no entry
StatusResp(task_id, code, status, detail, report_url, elapsed, pid) ==
    [op |-> "status", task_id |-> task_id, code |-> code, status |-> status,
     detail |-> detail, report_url |-> report_url, elapsed |-> elapsed, pid |-> pid]

-----------------------------------------------------------------------------
(* Worker processes *)

\* the mutant names every report after both dates
worker_filename_range(start_date, end_date) ==
    <<"daily_briefing_">> \o strftime(strptime(start_date)) \o <<"_">>
        \o strftime(strptime(end_date)) \o <<".html">>

\* daily_briefing.py:292-298: the file name the worker writes its report to
worker_filename(start_date, end_date) ==
    LET s == strptime(start_date)
        e == strptime(end_date)
        start_date_fmt == strftime(s)
        end_date_fmt == strftime(e)
    IN  IF start_date_fmt = end_date_fmt
        THEN <<"daily_briefing_">> \o start_date_fmt \o <<".html">>
        ELSE <<"daily_briefing_">> \o start_date_fmt \o <<"_">> \o end_date_fmt
                 \o <<".html">>

\* the mutant's worker names its report after the stock source as well
Popen_by_source(request, orphaned) ==
    [file |-> <<request.stockSource>>
                 \o worker_filename(request.startDate, request.endDate),
     source |-> request.stockSource,
     state |-> "running", returncode |-> 0,
     stdout |-> <<>>, stderr |-> <<>>,
     wrote |-> FALSE, orphan |-> orphaned]

\* subprocess.Popen(command, stdout=PIPE, stderr=PIPE, ...), main.py:137-147:
\* the record of the new child process
Popen(request, orphaned) ==
    [file |-> worker_filename(request.startDate, request.endDate),
     source |-> request.stockSource,
     state |-> "running", returncode |-> 0,
     stdout |-> <<>>, stderr |-> <<>>,
     wrote |-> FALSE, orphan |-> orphaned]

\* How a worker process can end: its exit status and what it has written to
\* the two pipes by then.  0 after main() returned (daily_briefing.py:335-337),
\* 1 after an uncaught exception (traceback on stderr), -9 when it is killed
\* (what it printed was still in its buffer, stdout being a pipe, and is lost).
Outcomes ==
    { [returncode |-> 0,  stdout |-> <<"[DEBUG] Arguments received">>, stderr |-> <<>>],
      [returncode |-> 1,  stdout |-> <<"[DEBUG] Arguments received">>,
                          stderr |-> <<"Traceback">>],
      [returncode |-> -9, stdout |-> <<>>, stderr |-> <<>>] }

Pids == 1..Len(procs)

\* the mutant takes every process for exited
poll_always_done(p) == [done |-> TRUE, returncode |-> procs[p].returncode]

\* Popen.poll(), main.py:129,133,168: done = FALSE stands for None
poll(p) == [done |-> procs[p].state = "exited", returncode |-> procs[p].returncode]

\* Popen.communicate() of an exited process, main.py:184,188
communicate(p) == <<procs[p].stdout, procs[p].stderr>>

\* the mutant finds no file
exists_never(task_id) == FALSE

\* os.path.exists(os.path.join(reports_dir, task_id)), main.py:162-163,180-181
exists(task_id) == task_id \in files

\* The Popen object of an exited worker lives as long as the registry or a
\* handler in flight refers to it (main.py:130,176 drop the registry's
\* reference); after that its exit status and its output can be read by no one.
Forgotten(proc) ==
    [proc EXCEPT !.state = "gone", !.file = <<>>, !.source = "all",
                 !.returncode = 0,
                 !.stdout = <<>>, !.stderr = <<>>, !.wrote = FALSE,
                 !.orphan = FALSE]

Referenced(registry, handlers) ==
    {registry[tid].process : tid \in DOMAIN registry}
        \cup {handlers[t].pid : t \in DOMAIN handlers}

Collect(ps, registry, handlers) ==
    [p \in DOMAIN ps |->
        IF ps[p].state = "exited" /\ p \notin Referenced(registry, handlers)
        THEN Forgotten(ps[p]) ELSE ps[p]]

\* daily_briefing.py:302-304: the worker writes its report file
WorkerWrite(p) ==
    /\ procs[p].state = "running"
    /\ ~procs[p].wrote
    /\ procs' = [procs EXCEPT ![p].wrote = TRUE]
    /\ files' = files \cup {procs[p].file}
    /\ resp' = NoResp
    /\ UNCHANGED <<tasks, config, threads, idq, wrk, ctime, inv, pipe>>

\* the worker process ends
WorkerExit(p, o) ==
    /\ procs[p].state = "running"
    /\ procs' = Collect([procs EXCEPT ![p].state = "exited",
                                      ![p].returncode = o.returncode,
                                      ![p].stdout = o.stdout,
                                      ![p].stderr = o.stderr],
                         tasks, threads)
    /\ resp' = NoResp
    /\ UNCHANGED <<tasks, files, config, threads, idq, wrk, ctime, inv, pipe>>

-----------------------------------------------------------------------------
(* The supervisor: helpers of the two endpoints *)

EmptyTasks == [tid \in {} |-> 0]

\* `lit in s` for a literal of the source
Contains(s, lit) == \E i \in 1..Len(s) : s[i] = lit

\* the mutant checks the iFind token only
check_secrets_token_only(cfg) ==
    ~(Contains(cfg.accessToken, "YOUR_IFIND_TOKEN_HERE") \/ cfg.accessToken = <<>>)

\* check_secrets(config), main.py:74-83: FALSE is HTTPException(400)
check_secrets(cfg) ==
    LET ifind_token == cfg.accessToken
        api_key == cfg.apiKey
    IN  IF Contains(ifind_token, "YOUR_IFIND_TOKEN_HERE") \/ ifind_token = <<>>
        THEN FALSE
        ELSE IF Contains(api_key, "YOUR_") \/ api_key = <<>>
        THEN FALSE
        ELSE TRUE

\* the mutant prunes nothing
prune_none(registry) == registry

\* the mutant drops every entry, also those of running workers
prune_all(registry) == [tid \in {} |-> 0]

\* main.py:128-130: the registry without the entries whose worker has exited
prune_finished(registry) ==
    [tid \in {x \in DOMAIN registry : ~poll(registry[x].process).done}
        |-> registry[tid]]

\* the mutant refuses no launch
never_running(registry, task_id) == FALSE

\* the mutant inverts the test of poll()
already_running_inverted(registry, task_id) ==
    /\ task_id \in DOMAIN registry
    /\ poll(registry[task_id].process).done

\* main.py:133: the duplicate check
already_running(registry, task_id) ==
    /\ task_id \in DOMAIN registry
    /\ ~poll(registry[task_id].process).done

\* the values time.time() can return (main.py:150,172)
Clock == 0..MaxTime

\* the mutant starts a new dict with the one entry
register_alone(registry, task_id, pid, time) ==
    [tid \in {task_id} |-> [process |-> pid, start_time |-> time]]

\* the mutant forgets to store the entry
register_lost(registry, task_id, pid, time) == registry

\* main.py:150: tasks[task_id] = {"process": process, "start_time": time.time()}
register(registry, task_id, pid, time) ==
    [tid \in DOMAIN registry \cup {task_id} |->
        IF tid = task_id THEN [process |-> pid, start_time |-> time]
        ELSE registry[tid]]

\* the mutant leaves the entry of the exited worker in the registry
keep_entry(registry, task_id) == registry

\* main.py:176: del tasks[task_id]
del_entry(registry, task_id) ==
    [tid \in DOMAIN registry \ {task_id} |-> registry[tid]]

\* the mutant leaves out the mount point of the reports directory
ReportUrl_no_mount(task_id) == <<"/">> \o task_id

\* main.py:32,163,181: the URL under which the static mount serves the file
ReportUrl(task_id) == <<"/reports/">> \o task_id

\* the mutant reports the bare output of the worker as the error detail
terminal_result_bare_detail(task_id, p) ==
    LET return_code == poll(p).returncode
        out == communicate(p)
    IN  IF return_code = 0
        THEN IF exists(task_id)
             THEN StatusResp(task_id, 200, "complete", <<>>, ReportUrl(task_id), 0, p)
             ELSE StatusResp(task_id, 200, "error",
                             IF out[1] # <<>> THEN out[1] ELSE out[2], <<>>, 0, p)
        ELSE StatusResp(task_id, 200, "error",
                        IF out[2] # <<>> THEN out[2] ELSE out[1], <<>>, 0, p)

\* main.py:178-189: the result of the poll that found worker p exited
terminal_result(task_id, p) ==
    LET return_code == poll(p).returncode
        out == communicate(p)
    IN  IF return_code = 0
        THEN IF exists(task_id)
             THEN StatusResp(task_id, 200, "complete", <<>>, ReportUrl(task_id), 0, p)
             ELSE StatusResp(task_id, 200, "error",
                             <<"script succeeded but no report file. output: ">>
                                 \o (IF out[1] # <<>> THEN out[1] ELSE out[2]),
                             <<>>, 0, p)
        ELSE StatusResp(task_id, 200, "error",
                        <<"script failed. error: ">>
                            \o (IF out[2] # <<>> THEN out[2] ELSE out[1]),
                        <<>>, 0, p)

\* the mutant answers 404 without probing the reports directory
absent_result_no_fallback(task_id) ==
    StatusResp(task_id, 404, "not_found", <<>>, <<>>, 0, 0)

\* the mutant reports complete without probing the reports directory
absent_result_no_probe(task_id) ==
    StatusResp(task_id, 200, "complete", <<>>, ReportUrl(task_id), 0, 0)

\* main.py:160-165: the result of a poll for an id that has no entry
absent_result(task_id) ==
    IF exists(task_id)
    THEN StatusResp(task_id, 200, "complete", <<>>, ReportUrl(task_id), 0, 0)
    ELSE StatusResp(task_id, 404, "not_found", <<>>, <<>>, 0, 0)

\* main.py:170-173: the result of a poll that found worker p still running
running_result(task_id, entry, time) ==
    StatusResp(task_id, 200, "running", <<>>, <<>>, time - entry.start_time,
               entry.process)

\* a worker thread of the server's thread pool, with the locals of the handler
\* it runs: the request body, task_id, the rest of list(tasks.keys()), the
\* and the process the handler holds
IdleThread ==
    [pc |-> "idle", request |-> <<>>, task_id |-> <<>>, keys |-> <<>>, pid |-> 0]

Threads == {1, 2}

-----------------------------------------------------------------------------
(* The supervisor: each request handled atomically *)

\* POST /api/run/daily_briefing, main.py:114-152
run_daily_briefing_async(request) ==
    LET fn == get_expected_report_filename(request.startDate, request.endDate)
        task_id == fn.name
        pruned == prune_finished(tasks)
        pid == Len(procs) + 1
        live == Collect(procs, pruned, threads)
    IN  /\ UNCHANGED <<files, config, threads, idq, wrk, ctime, inv, pipe>>
        /\ IF ~check_secrets(config)
           THEN /\ resp' = LaunchResp(<<>>, 400, "prerequisite_missing", 0)
                /\ UNCHANGED <<tasks, procs>>
           ELSE IF ~fn.ok
           THEN /\ resp' = LaunchResp(<<>>, 500, "value_error", 0)
                /\ UNCHANGED <<tasks, procs>>
           ELSE IF already_running(pruned, task_id)
           THEN /\ resp' = LaunchResp(task_id, 409, "conflict", pruned[task_id].process)
                /\ tasks' = pruned
                /\ procs' = live
           ELSE \/ \* Popen raises OSError
                   /\ resp' = LaunchResp(task_id, 500, "launch_failure", 0)
                   /\ tasks' = pruned
                   /\ procs' = live
                \/ /\ pid <= MaxProcs
                   /\ procs' = Append(live, Popen(request, FALSE))
                   /\ \E time \in Clock : tasks' = register(pruned, task_id, pid, time)
                   /\ resp' = LaunchResp(task_id, 202, "started", pid)

\* GET /api/status/daily_briefing/{task_id}, main.py:154-189
get_daily_briefing_status(task_id) ==
    /\ UNCHANGED <<files, config, threads, idq, wrk, ctime, inv, pipe>>
    /\ IF task_id \notin DOMAIN tasks
       THEN /\ resp' = absent_result(task_id)
            /\ UNCHANGED <<tasks, procs>>
       ELSE LET task == tasks[task_id]
                process == task.process
                return_code == poll(process)
            IN  IF ~return_code.done
                THEN /\ \E time \in Clock :
                            /\ time >= task.start_time
                            /\ resp' = running_result(task_id, task, time)
                     /\ UNCHANGED <<tasks, procs>>
                ELSE /\ tasks' = del_entry(tasks, task_id)
                     /\ resp' = terminal_result(task_id, process)
                     /\ procs' = Collect(procs, tasks', threads)

\* POST /api/config, main.py:104-112: config.json is written anew
update_config(new_config) ==
    /\ config' = new_config
    /\ resp' = [NoResp EXCEPT !.op = "config", !.code = 200]
    /\ UNCHANGED <<tasks, procs, files, threads, idq, wrk, ctime, inv, pipe>>

\* The service process ends and is started again: the registry is the empty
\* dict of main.py:20 again; the workers of the old process run on, unknown
\* to the new one, and the files stay.  (With no worker of its own left the
\* new process is in the state the old one was in.)
Restart ==
    /\ \E p \in Pids : procs[p].state # "gone" /\ ~procs[p].orphan
    /\ tasks' = EmptyTasks
    /\ threads' = [t \in Threads |-> IdleThread]
    /\ procs' = Collect([p \in Pids |-> [procs[p] EXCEPT !.orphan = TRUE]],
                         tasks', threads')
    /\ resp' = NoResp
    /\ UNCHANGED <<files, config, idq, wrk, ctime, inv, pipe>>

IdqOff == [pc |-> "off", a |-> <<>>, b |-> <<>>, ra |-> NoName, rb |-> NoName]

\* no run of the worker script is followed
WrkOff ==
    [pc |-> "off", start_date |-> <<>>, end_date |-> <<>>, task_id |-> <<>>,
     env |-> <<>>, filename |-> <<>>, returncode |-> 0]

\* an empty reports_dir
NoFiles == [f \in {} |-> 0]

\* the capacity of the pipe of subprocess.PIPE (main.py:147), in units of
\* output (64 KiB on Linux)
PipeCap == 2

\* no pipe is followed
PipeOff == [todo |-> 0, held |-> 0]

\* no investment-report request on the thread
InvIdle == [pc |-> "idle", ticker |-> NoTicker, read |-> NoTicker]

Init ==
    /\ tasks = EmptyTasks
    /\ procs = <<>>
    /\ files = {}
    /\ config \in Configs
    /\ resp = NoResp
    /\ threads = [t \in Threads |-> IdleThread]
    /\ idq = IdqOff
    /\ wrk = WrkOff
    /\ ctime = NoFiles
    /\ inv = [t \in Threads |-> InvIdle]
    /\ pipe = PipeOff

Worker ==
    \E p \in Pids :
        \/ WorkerWrite(p)
        \/ \E o \in Outcomes : WorkerExit(p, o)

Next ==
    \/ \E request \in Requests : run_daily_briefing_async(request)
    \/ \E task_id \in TaskIds : get_daily_briefing_status(task_id)
    \/ \E c \in Configs : update_config(c)
    \/ Worker
    \/ Restart

Spec == Init /\ [][Next]_vars

-----------------------------------------------------------------------------
(* The supervisor: requests handled by the threads of the pool.  The two    *)
(* endpoints are plain `def` functions, which the framework runs on worker  *)
(* threads; a step is one statement of a handler.                           *)

\* list(d.keys()): the keys of a dict as a list
RECURSIVE KeyList(_)
KeyList(keys) ==
    IF keys = {} THEN <<>>
    ELSE LET k == CHOOSE x \in keys : TRUE
         IN  <<k>> \o KeyList(keys \ {k})

KeyError(task_id) == LaunchResp(task_id, 500, "key_error", 0)

\* the handler on thread t returns or raises: the response is sent and the
\* thread goes back to the pool
Finish(t, response) ==
    /\ threads' = [threads EXCEPT ![t] = IdleThread]
    /\ resp' = response

\* the handler on thread t goes on to its next statement
Goto(t, locals) ==
    /\ threads' = [threads EXCEPT ![t] = locals]
    /\ resp' = NoResp

\* main.py:128: the loop goes on while list(tasks.keys()) has a next tid
AfterKeys(keys) == IF keys = <<>> THEN "check" ELSE "prune"

\* main.py:120-128: the launch handler up to list(tasks.keys())
L_Begin(t, request) ==
    LET fn == get_expected_report_filename(request.startDate, request.endDate)
        keys == KeyList(DOMAIN tasks)
    IN  /\ threads[t].pc = "idle"
        /\ IF ~check_secrets(config)
           THEN Finish(t, LaunchResp(<<>>, 400, "prerequisite_missing", 0))
           ELSE IF ~fn.ok
           THEN Finish(t, LaunchResp(<<>>, 500, "value_error", 0))
           ELSE Goto(t, [threads[t] EXCEPT !.pc = AfterKeys(keys),
                                           !.request = request,
                                           !.task_id = fn.name,
                                           !.keys = keys])
        /\ UNCHANGED <<tasks, procs, files, config, idq, wrk, ctime, inv, pipe>>

\* main.py:129: if tasks[tid]["process"].poll() is not None
L_Prune(t) ==
    LET tid == Head(threads[t].keys)
        rest == Tail(threads[t].keys)
    IN  /\ threads[t].pc = "prune"
        /\ IF tid \notin DOMAIN tasks
           THEN Finish(t, KeyError(threads[t].task_id))
           ELSE IF poll(tasks[tid].process).done
           THEN Goto(t, [threads[t] EXCEPT !.pc = "prune_del"])
           ELSE Goto(t, [threads[t] EXCEPT !.pc = AfterKeys(rest), !.keys = rest])
        /\ UNCHANGED <<tasks, procs, files, config, idq, wrk, ctime, inv, pipe>>

\* main.py:130: del tasks[tid]
L_PruneDel(t) ==
    LET tid == Head(threads[t].keys)
        rest == Tail(threads[t].keys)
    IN  /\ threads[t].pc = "prune_del"
        /\ IF tid \notin DOMAIN tasks
           THEN /\ Finish(t, KeyError(threads[t].task_id))
                /\ UNCHANGED tasks
           ELSE /\ tasks' = del_entry(tasks, tid)
                /\ Goto(t, [threads[t] EXCEPT !.pc = AfterKeys(rest), !.keys = rest])
        /\ procs' = Collect(procs, tasks', threads')
        /\ UNCHANGED <<files, config, idq, wrk, ctime, inv, pipe>>

\* main.py:133-147: the duplicate check, then Popen (which touches no state
\* another handler reads)
L_Check(t) ==
    /\ threads[t].pc = "check"
    /\ IF already_running(tasks, threads[t].task_id)
       THEN /\ Finish(t, LaunchResp(threads[t].task_id, 409, "conflict",
                                    tasks[threads[t].task_id].process))
            /\ UNCHANGED procs
       ELSE \/ /\ Finish(t, LaunchResp(threads[t].task_id, 500, "launch_failure", 0))
               /\ UNCHANGED procs
            \/ /\ Len(procs) < MaxProcs
               /\ procs' = Append(procs, Popen(threads[t].request, FALSE))
               /\ Goto(t, [threads[t] EXCEPT !.pc = "register",
                                             !.pid = Len(procs) + 1])
    /\ UNCHANGED <<tasks, files, config, idq, wrk, ctime, inv, pipe>>

\* main.py:150-152: the entry is stored and the handler returns 202
L_Register(t) ==
    /\ threads[t].pc = "register"
    /\ \E time \in Clock :
          tasks' = register(tasks, threads[t].task_id, threads[t].pid, time)
    /\ Finish(t, LaunchResp(threads[t].task_id, 202, "started", threads[t].pid))
    /\ procs' = Collect(procs, tasks', threads')
    /\ UNCHANGED <<files, config, idq, wrk, ctime, inv, pipe>>

\* main.py:159-173: tasks.get(task_id), process.poll() and the branches that
\* return without touching the registry
S_Begin(t, task_id) ==
    /\ threads[t].pc = "idle"
    /\ IF task_id \notin DOMAIN tasks
       THEN Finish(t, absent_result(task_id))
       ELSE LET task == tasks[task_id]
            IN  IF ~poll(task.process).done
                THEN \E time \in Clock :
                        /\ time >= task.start_time
                        /\ Finish(t, running_result(task_id, task, time))
                ELSE Goto(t, [threads[t] EXCEPT !.pc = "del",
                                                !.task_id = task_id,
                                                !.pid = task.process])
    /\ UNCHANGED <<tasks, procs, files, config, idq, wrk, ctime, inv, pipe>>

\* main.py:176-189: del tasks[task_id] and the terminal result
S_Del(t) ==
    /\ threads[t].pc = "del"
    /\ IF threads[t].task_id \notin DOMAIN tasks
       THEN /\ Finish(t, [KeyError(threads[t].task_id) EXCEPT !.op = "status"])
            /\ UNCHANGED tasks
       ELSE /\ tasks' = del_entry(tasks, threads[t].task_id)
            /\ Finish(t, terminal_result(threads[t].task_id, threads[t].pid))
    /\ procs' = Collect(procs, tasks', threads')
    /\ UNCHANGED <<files, config, idq, wrk, ctime, inv, pipe>>

NextPar ==
    \/ \E t \in Threads, request \in Requests : L_Begin(t, request)
    \/ \E t \in Threads : L_Prune(t)
    \/ \E t \in Threads : L_PruneDel(t)
    \/ \E t \in Threads : L_Check(t)
    \/ \E t \in Threads : L_Register(t)
    \/ \E t \in Threads, task_id \in TaskIds : S_Begin(t, task_id)
    \/ \E t \in Threads : S_Del(t)
    \/ Worker

SpecPar == Init /\ [][NextPar]_vars

-----------------------------------------------------------------------------
(* The task id as a function of the request: two requests are resolved *)

DatePairs == [start : DateTable, end : DateTable]

InitId ==
    /\ tasks = EmptyTasks
    /\ procs = <<>>
    /\ files = {}
    /\ config = OkConfig
    /\ resp = NoResp
    /\ threads = [t \in Threads |-> IdleThread]
    /\ \E a \in DatePairs, b \in DatePairs :
          idq = [pc |-> "in", a |-> a, b |-> b, ra |-> NoName, rb |-> NoName]
    /\ wrk = WrkOff
    /\ ctime = NoFiles
    /\ inv = [t \in Threads |-> InvIdle]
    /\ pipe = PipeOff

\* main.py:125 for each of the two requests
ResolveIds ==
    /\ idq.pc = "in"
    /\ idq' = [idq EXCEPT
                 !.pc = "out",
                 !.ra = get_expected_report_filename(idq.a.start.str, idq.a.end.str),
                 !.rb = get_expected_report_filename(idq.b.start.str, idq.b.end.str)]
    /\ UNCHANGED <<tasks, procs, files, config, resp, threads, wrk, ctime, inv, pipe>>

NextId == ResolveIds

SpecId == InitId /\ [][NextId]_vars

-----------------------------------------------------------------------------
(* One run of scripts/daily_briefing.py, as the launch endpoint starts it:  *)
(* python3 daily_briefing.py --start-date S --end-date E --stock-source X   *)

\* what the run meets: config.json loads to a non-empty dict
\* (daily_briefing.py:15-26,335-336), the work before the file is saved raises
\* nothing (252-290), open(output_path, 'w') and write succeed (302-304)
WorkerEnvs == [config_ok : BOOLEAN, work_ok : BOOLEAN, write_ok : BOOLEAN]

\* the date strings of the requests the launch endpoint accepts
ValidDates == { d.str : d \in { x \in DateTable : x.valid } }

\* the worker has just been spawned (main.py:136-147) for a request whose
\* task id the launch endpoint computed (main.py:125)
InitWorker ==
    /\ tasks = EmptyTasks
    /\ procs = <<>>
    /\ files = {}
    /\ config = OkConfig
    /\ resp = NoResp
    /\ threads = [t \in Threads |-> IdleThread]
    /\ idq = IdqOff
    /\ ctime = NoFiles
    /\ inv = [t \in Threads |-> InvIdle]
    /\ pipe = PipeOff
    /\ \E start \in ValidDates, end \in ValidDates, env \in WorkerEnvs :
          wrk = [WrkOff EXCEPT
                   !.pc = "start",
                   !.start_date = start,
                   !.end_date = end,
                   !.task_id = get_expected_report_filename(start, end).name,
                   !.env = env]

\* the Python process ends with the given exit status
Exit(code) == wrk' = [wrk EXCEPT !.pc = "exited", !.returncode = code]

\* daily_briefing.py:312-336: the arguments are parsed, get_config() returns
\* the dict or None; main() is called only for a dict that is not empty
W_GetConfig ==
    /\ wrk.pc = "start"
    /\ IF wrk.env.config_ok
       THEN wrk' = [wrk EXCEPT !.pc = "main"]
       ELSE wrk' = [wrk EXCEPT !.pc = "end"]
    /\ UNCHANGED <<tasks, procs, files, config, resp, threads, idq, ctime, inv, pipe>>

\* daily_briefing.py:252-290: the announcements are fetched and analysed, the
\* HTML is rendered, the output directory is made; an exception raised here is
\* caught by nobody and ends the process with status 1
W_Work ==
    /\ wrk.pc = "main"
    /\ IF wrk.env.work_ok
       THEN wrk' = [wrk EXCEPT !.pc = "save"]
       ELSE Exit(1)
    /\ UNCHANGED <<tasks, procs, files, config, resp, threads, idq, ctime, inv, pipe>>

\* daily_briefing.py:292-310: the file name is computed and the file is
\* written; an exception of open() or write() is caught and printed
W_Save ==
    LET filename == worker_filename(wrk.start_date, wrk.end_date)
    IN  /\ wrk.pc = "save"
        /\ wrk' = [wrk EXCEPT !.pc = "end", !.filename = filename]
        /\ IF wrk.env.write_ok
           THEN files' = files \cup {filename}
           ELSE files' = files
        /\ UNCHANGED <<tasks, procs, config, resp, threads, idq, ctime, inv, pipe>>

\* daily_briefing.py:337: the script runs off its end
W_End ==
    /\ wrk.pc = "end"
    /\ Exit(0)
    /\ UNCHANGED <<tasks, procs, files, config, resp, threads, idq, ctime, inv, pipe>>

NextWorker == W_GetConfig \/ W_Work \/ W_Save \/ W_End

SpecWorker == InitWorker /\ [][NextWorker]_vars

-----------------------------------------------------------------------------
(* The investment report: POST /api/run/investment_report runs the pipeline *)
(* scripts/run_report_pipeline_v1.1.py to its end and then looks up the     *)
(* report in reports_dir.  The handler is a plain `def`, so it occupies a   *)
(* pool thread for as long as the pipeline runs, and other requests are     *)
(* handled meanwhile.                                                       *)

\* the tickers the clients ask for (InvestmentReportRequest, main.py:51-54;
\* userInfo and reportPeriod travel with the ticker)
Tickers == { <<"430047", "_BJ">>, <<"830799", "_BJ">> }

\* the report the pipeline leaves in generated_reports for a ticker
\* (stock_analyzer.py:300-301, run_report_pipeline_v1.1.py:129,184-188)
ReportName(ticker) == <<"Report_">> \o ticker \o <<"_v1.1", ".html">>

\* a file in reports_dir that no part of the service wrote
ForeignFile == <<"notes", ".txt">>

\* the response of the investment-report endpoint
InvResp(code, status, report_url) ==
    [NoResp EXCEPT !.op = "invest", !.code = code, !.status = status,
                   !.report_url = report_url]

\* glob.glob(os.path.join(investment_reports_dir, '*.html')), main.py:213
glob_html(dir) == { f \in DOMAIN dir : f # <<>> /\ f[Len(f)] = ".html" }

\* the mutant takes the file that was written first
oldest(paths, dir) == { f \in paths : \A g \in paths : dir[f] <= dir[g] }

\* max(list_of_html_files, key=os.path.getctime), main.py:217: the files max
\* can return, which of them depending on the order glob lists them in
latest(paths, dir) == { f \in paths : \A g \in paths : dir[g] <= dir[f] }

\* the ctime of the newest file of the directory; 0 for an empty directory
Newest(dir) ==
    IF DOMAIN dir = {} THEN 0
    ELSE CHOOSE c \in { dir[f] : f \in DOMAIN dir } :
            \A f \in DOMAIN dir : dir[f] <= c

\* the ctimes a file written now can get: the clock has gone on since the
\* newest file was written, or not by as much as its resolution
Now(dir) == { c \in {Newest(dir), Newest(dir) + 1} : c <= MaxCtime }

\* the directory after the file was created or written again at ctime c
Written(dir, name, c) ==
    [f \in DOMAIN dir \cup {name} |-> IF f = name THEN c ELSE dir[f]]

Removed(dir, name) == [f \in DOMAIN dir \ {name} |-> dir[f]]

\* main.py:193-211: the configuration is read and checked, the parameters of
\* the request are written into config.json, and the pipeline is started
I_Begin(t, ticker) ==
    /\ inv[t].pc = "idle"
    /\ IF ~check_secrets(config)
       THEN /\ resp' = InvResp(400, "prerequisite_missing", <<>>)
            /\ UNCHANGED <<config, inv>>
       ELSE \/ \* open(config_path, 'w') raises
               /\ resp' = InvResp(500, "config_write_failure", <<>>)
               /\ UNCHANGED <<config, inv>>
            \/ /\ config' = [config EXCEPT !.ticker = ticker]
               /\ inv' = [inv EXCEPT ![t] = [pc |-> "pipeline", ticker |-> ticker,
                                              read |-> NoTicker]]
               /\ resp' = NoResp
    /\ UNCHANGED <<tasks, procs, files, threads, idq, wrk, ctime, pipe>>

\* stock_analyzer.py:280-286, the first step of the pipeline
\* (run_report_pipeline_v1.1.py:146): the child reads config.json
I_Analyse(t) ==
    /\ inv[t].pc = "pipeline"
    /\ inv' = [inv EXCEPT ![t].pc = "analysed", ![t].read = config.ticker]
    /\ resp' = NoResp
    /\ UNCHANGED <<tasks, procs, files, config, threads, idq, wrk, ctime, pipe>>

\* run_report_pipeline_v1.1.py:178-192 and main.py:211,220-223: the pipeline
\* ends.  It exits 0 after copying its report into generated_reports; a step
\* that fails makes it exit 1, and after 300 s it is killed: both raise in
\* the handler, which answers 500.
I_PipelineEnd(t) ==
    /\ inv[t].pc \in {"pipeline", "analysed"}
    /\ \/ /\ inv[t].pc = "analysed"
          /\ \E c \in Now(ctime) :
                ctime' = Written(ctime, ReportName(inv[t].read), c)
          /\ files' = DOMAIN ctime'
          /\ inv' = [inv EXCEPT ![t].pc = "locate"]
          /\ resp' = NoResp
       \/ /\ inv' = [inv EXCEPT ![t] = InvIdle]
          /\ resp' = InvResp(500, "pipeline_failure", <<>>)
          /\ UNCHANGED <<files, ctime>>
    /\ UNCHANGED <<tasks, procs, config, threads, idq, wrk, pipe>>

\* main.py:213-218,222-223: the artifact locator.  The HTTPException of
\* line 215 is caught at line 222 and raised again as a 500.
I_Locate(t) ==
    LET list_of_html_files == glob_html(ctime)
    IN  /\ inv[t].pc = "locate"
        /\ inv' = [inv EXCEPT ![t] = InvIdle]
        /\ IF list_of_html_files = {}
           THEN resp' = InvResp(500, "unknown_error", <<>>)
           ELSE \E latest_report \in latest(list_of_html_files, ctime) :
                   resp' = InvResp(200, "ok",
                                   <<"/investment_reports/">> \o latest_report)
        /\ UNCHANGED <<tasks, procs, files, config, threads, idq, wrk, ctime, pipe>>

\* daily_briefing.py:302-304: a daily-briefing worker launched earlier writes
\* its report into the same directory
BriefingWrite(task_id) ==
    /\ \E c \in Now(ctime) : ctime' = Written(ctime, task_id, c)
    /\ files' = DOMAIN ctime'
    /\ resp' = NoResp
    /\ UNCHANGED <<tasks, procs, config, threads, idq, wrk, inv, pipe>>

\* main.py:24-26,213-215: the directory is an ordinary one; whoever runs the
\* service can clear a file away or drop one of their own into it
Housekeeping ==
    /\ \/ \E f \in DOMAIN ctime : ctime' = Removed(ctime, f)
       \/ \E c \in Now(ctime) : ctime' = Written(ctime, ForeignFile, c)
    /\ files' = DOMAIN ctime'
    /\ resp' = NoResp
    /\ UNCHANGED <<tasks, procs, config, threads, idq, wrk, inv, pipe>>

InitInv ==
    /\ tasks = EmptyTasks
    /\ procs = <<>>
    /\ files = {}
    /\ config \in Configs
    /\ resp = NoResp
    /\ threads = [t \in Threads |-> IdleThread]
    /\ idq = IdqOff
    /\ wrk = WrkOff
    /\ ctime = NoFiles
    /\ inv = [t \in Threads |-> InvIdle]
    /\ pipe = PipeOff

\* investment-report requests on both pool threads, and the settings page
NextInv ==
    \/ \E t \in Threads, ticker \in Tickers : I_Begin(t, ticker)
    \/ \E t \in Threads : I_Analyse(t)
    \/ \E t \in Threads : I_PipelineEnd(t)
    \/ \E t \in Threads : I_Locate(t)
    \/ \E c \in Configs : update_config(c)

SpecInv == InitInv /\ [][NextInv]_vars

\* one investment-report request at a time, in a directory that the
\* daily-briefing workers and the operator use as well
NextLocate ==
    \/ \E ticker \in Tickers : I_Begin(1, ticker)
    \/ I_Analyse(1)
    \/ I_PipelineEnd(1)
    \/ I_Locate(1)
    \/ BriefingWrite(Id0110)
    \/ Housekeeping

SpecLocate == InitInv /\ [][NextLocate]_vars

-----------------------------------------------------------------------------
(* The stdout pipe of a worker.  Popen(stdout=PIPE) gives the worker a pipe *)
(* of fixed capacity to print into; the service reads it in communicate(),  *)
(* which the status endpoint calls for an exited worker only.               *)

\* the service has just accepted the launch of R0110 (main.py:147-152) and
\* the worker will print `todo` units of output (daily_briefing.py:254-284,
\* one line or more per announcement) before it writes its report
InitPipe ==
    /\ procs = <<Popen(R0110, FALSE)>>
    /\ \E time \in Clock : tasks = register(EmptyTasks, Id0110, 1, time)
    /\ files = {}
    /\ config = OkConfig
    /\ resp = LaunchResp(Id0110, 202, "started", 1)
    /\ threads = [t \in Threads |-> IdleThread]
    /\ idq = IdqOff
    /\ wrk = WrkOff
    /\ ctime = NoFiles
    /\ inv = [t \in Threads |-> InvIdle]
    /\ \E n \in 0..MaxOutput : pipe = [todo |-> n, held |-> 0]

\* print(...) in the worker: the unit goes into the pipe; with the pipe full
\* the write blocks until a reader takes something out
P_Print ==
    /\ procs[1].state = "running"
    /\ pipe.todo > 0
    /\ pipe.held < PipeCap
    /\ pipe' = [todo |-> pipe.todo - 1, held |-> pipe.held + 1]
    /\ resp' = NoResp
    /\ UNCHANGED <<tasks, procs, files, config, threads, idq, wrk, ctime, inv>>

\* daily_briefing.py:302-304: all printed, the worker writes its report
P_Write ==
    /\ pipe.todo = 0
    /\ WorkerWrite(1)

\* the worker ends: with status 0 when it has run to its end, with another
\* status at any time (an exception, a kill)
P_Exit ==
    \E o \in Outcomes :
        /\ o.returncode = 0 => pipe.todo = 0
        /\ WorkerExit(1, o)

\* GET /api/status/daily_briefing/{task_id}: process.poll() reads nothing
\* from the pipe; communicate() runs only after the worker has exited
P_Poll == get_daily_briefing_status(Id0110)

NextPipe == P_Print \/ P_Write \/ P_Exit \/ P_Poll

SpecPipe == InitPipe /\ [][NextPipe]_vars

-----------------------------------------------------------------------------
(* The stock source of a launch.  The service passes request.stockSource   *)
(* to the worker as --stock-source (main.py:142); the worker selects its    *)
(* announcements by it (daily_briefing.py:254) and names its report by the  *)
(* two dates alone (daily_briefing.py:292-298).  Requests for one day with  *)
(* the two stock sources, handled one at a time.                            *)

SourceRequests == {R0110, RCustom}

InitSource == Init /\ config = OkConfig

NextSource ==
    \/ \E request \in SourceRequests : run_daily_briefing_async(request)
    \/ get_daily_briefing_status(Id0110)
    \/ Worker
    \/ Restart

SpecSource == InitSource /\ [][NextSource]_vars

-----------------------------------------------------------------------------
(* Claims *)

Running(p) == procs[p].state = "running"

\* the worker p was launched by the running service process for the id
LiveFor(p, task_id) ==
    Running(p) /\ ~procs[p].orphan /\ procs[p].file = task_id

Registered(registry) == {registry[tid].process : tid \in DOMAIN registry}

Terminal == {"complete", "error"}

\* the step handled a launch request that got as far as computing task_id
LaunchStep(task_id) == resp'.op = "launch" /\ resp'.task_id = task_id

\* the step handled a status poll for task_id
StatusStep(task_id) == resp'.op = "status" /\ resp'.task_id = task_id

\* C1: a launch for an id whose worker, launched by this service process, has
\* not exited is refused with 409, spawns no process, and leaves the entry of
\* the id as it was, pointing at that worker.
C1_ConflictWhileRunning ==
    [][\A task_id \in TaskIds : \A p \in Pids :
          (LiveFor(p, task_id) /\ LaunchStep(task_id))
          => /\ resp'.code = 409
             /\ resp'.pid = p
             /\ Len(procs') = Len(procs)
             /\ task_id \in DOMAIN tasks /\ task_id \in DOMAIN tasks'
             /\ tasks'[task_id] = tasks[task_id]
             /\ tasks[task_id].process = p]_vars

C1_Witness ==
    /\ resp.op = "launch" /\ resp.code = 409
    /\ resp.task_id \in DOMAIN tasks
    /\ tasks[resp.task_id].process = resp.pid
    /\ Running(resp.pid)
    /\ Cardinality(DOMAIN tasks) = 1

\* C2 (as amended): the first status poll for an id whose worker has exited
\* reports complete or error for that worker and removes the entry; a poll
\* for the same id right after it reads no entry and reports complete if the
\* report file exists (always so when the first poll reported complete) and
\* 404 if it does not, never running and never a result of the exited worker.
C2_ReapOnce ==
    [][\A task_id \in TaskIds :
          /\ (/\ task_id \in DOMAIN tasks
              /\ procs[tasks[task_id].process].state = "exited"
              /\ StatusStep(task_id))
             => /\ resp'.status \in Terminal
                /\ resp'.pid = tasks[task_id].process
                /\ task_id \notin DOMAIN tasks'
          /\ (/\ resp.op = "status" /\ resp.task_id = task_id
              /\ resp.pid # 0 /\ resp.status \in Terminal
              /\ StatusStep(task_id))
             => /\ resp'.pid = 0
                /\ tasks' = tasks
                /\ IF exists(task_id)
                   THEN resp'.status = "complete"
                   ELSE resp'.status = "not_found" /\ resp'.code = 404
                /\ resp.status = "complete" => resp'.status = "complete"]_vars

\* C2 as claimed: the poll right after the reaping poll reports complete if
\* the reaping poll reported complete and 404 if it reported error.
C2_Original ==
    [][\A task_id \in TaskIds :
          (/\ resp.op = "status" /\ resp.task_id = task_id
           /\ resp.pid # 0 /\ resp.status \in Terminal
           /\ StatusStep(task_id))
          => /\ resp.status = "complete" => resp'.status = "complete"
             /\ resp.status = "error" => resp'.status = "not_found"]_vars

C2_Witness ==
    /\ resp.op = "status" /\ resp.pid # 0 /\ resp.status = "error"
    /\ resp.task_id \notin DOMAIN tasks
    /\ procs[resp.pid].state = "gone"
    /\ exists(resp.task_id)

\* C3: a status poll for an id that has no entry and whose report file exists
\* reports complete with the URL /reports/<id> and leaves the registry as it
\* was.
C3_RestartRecovery ==
    [][\A task_id \in TaskIds :
          (task_id \notin DOMAIN tasks /\ exists(task_id) /\ StatusStep(task_id))
          => /\ resp'.code = 200 /\ resp'.status = "complete"
             /\ resp'.report_url = <<"/reports/">> \o task_id
             /\ tasks' = tasks]_vars

\* after a restart: the registry is empty, a worker of the old service process
\* wrote the file and still runs
C3_Witness ==
    /\ resp.op = "status" /\ resp.status = "complete" /\ resp.pid = 0
    /\ tasks = EmptyTasks
    /\ \E p \in Pids : Running(p) /\ procs[p].orphan /\ procs[p].file = resp.task_id

\* C4: the poll that reaps a worker reports error with a non-empty detail when
\* the exit code is not 0, error when the exit code is 0 and the report file
\* is missing, and complete exactly when the exit code is 0 and the file
\* exists.
C4_FailureSurfacing ==
    [][\A task_id \in TaskIds :
          (/\ task_id \in DOMAIN tasks
           /\ procs[tasks[task_id].process].state = "exited"
           /\ StatusStep(task_id))
          => LET return_code == procs[tasks[task_id].process].returncode
             IN  /\ resp'.status \in Terminal
                 /\ return_code # 0
                       => resp'.status = "error" /\ resp'.detail # <<>>
                 /\ (return_code = 0 /\ ~exists(task_id))
                       => resp'.status = "error"
                 /\ resp'.status = "complete"
                       <=> (return_code = 0 /\ exists(task_id))]_vars

C4_Witness ==
    /\ resp.op = "status" /\ resp.pid # 0 /\ resp.status = "error"
    /\ resp.detail = <<"script failed. error: ">>
    /\ ~exists(resp.task_id)

\* the step handled a launch or a status request
RequestStep == resp'.op \in {"launch", "status"}

\* C5 (as amended): over launch and status requests, the entry of a worker
\* leaves the registry only after the worker has exited, and the request that
\* removes it is either a status poll for its id, which returns that worker's
\* result (complete or error), or a launch request, whose prune discards it
\* with no result delivered; an entry once removed never comes back, as only
\* the process a launch has just spawned is ever registered.
C5_ReapedOnce ==
    [][RequestStep =>
          /\ \A p \in Registered(tasks) \ Registered(tasks') :
                /\ procs[p].state = "exited"
                /\ \/ /\ resp'.op = "status"
                      /\ resp'.pid = p
                      /\ resp'.status \in Terminal
                      /\ resp'.task_id \in DOMAIN tasks
                      /\ tasks[resp'.task_id].process = p
                   \/ resp'.op = "launch"
          /\ \A p \in Registered(tasks') \ Registered(tasks) :
                /\ p = Len(procs) + 1
                /\ resp'.op = "launch" /\ resp'.code = 202 /\ resp'.pid = p]_vars

\* C5 as claimed: the request that removes the entry of an exited worker is a
\* status poll that returns that worker's result.
C5_Original ==
    [][RequestStep =>
          \A p \in Registered(tasks) \ Registered(tasks') :
              procs[p].state = "exited"
                 => /\ resp'.op = "status"
                    /\ resp'.pid = p
                    /\ resp'.status \in Terminal]_vars

\* a status poll has removed the entry of an exited worker and returned its
\* result, while the entry of another id stays
C5_Witness ==
    /\ resp.op = "status" /\ resp.pid # 0 /\ resp.status \in Terminal
    /\ procs[resp.pid].state = "gone"
    /\ resp.task_id \notin DOMAIN tasks
    /\ tasks # EmptyTasks

\* C6 as claimed: no two workers launched by the running service process for
\* the same id run at the same time.
C6_OneLiveWorkerPerId ==
    \A p \in Pids : \A q \in Pids :
        (p # q /\ Running(p) /\ Running(q) /\ ~procs[p].orphan /\ ~procs[q].orphan)
            => procs[p].file # procs[q].file

\* C7 as claimed: no request fails on a registry entry another request removed.
C7_NoKeyError == resp.status # "key_error"

\* C8: a launch for an id is refused with 409 exactly when a worker launched by
\* this service process for the id is still running; otherwise, whether or not
\* an entry of an exited worker of the id is still in the registry, a new
\* process is spawned and registered under the id with 202, unless Popen
\* itself fails, which leaves the id without an entry.
C8_ResubmitSafe ==
    [][\A task_id \in TaskIds :
          LaunchStep(task_id) =>
             IF \E p \in Pids : LiveFor(p, task_id)
             THEN resp'.code = 409
             ELSE \/ /\ resp'.code = 202
                     /\ resp'.pid = Len(procs) + 1
                     /\ Len(procs') = Len(procs) + 1
                     /\ task_id \in DOMAIN tasks'
                     /\ tasks'[task_id].process = resp'.pid
                     /\ procs'[resp'.pid].state = "running"
                     /\ ~procs'[resp'.pid].orphan
                     /\ procs'[resp'.pid].file = task_id
                  \/ /\ resp'.code = 500 /\ resp'.status = "launch_failure"
                     /\ Len(procs') = Len(procs)
                     /\ task_id \notin DOMAIN tasks']_vars

\* the second launch of an id was accepted after its first worker had exited
C8_Witness ==
    /\ resp.op = "launch" /\ resp.code = 202 /\ resp.pid = 2
    /\ procs[1].state = "gone"
    /\ DOMAIN tasks = {resp.task_id}
    /\ files = {resp.task_id}

\* C9: two requests whose date strings are well formed get the same id exactly
\* when they denote the same start date and the same end date.
C9_IdempotentIdentity ==
    (/\ idq.pc = "out"
     /\ idq.a.start.valid /\ idq.a.end.valid
     /\ idq.b.start.valid /\ idq.b.end.valid)
    => /\ idq.ra.ok /\ idq.rb.ok
       /\ idq.ra.name = idq.rb.name
             <=> /\ idq.a.start.date = idq.b.start.date
                 /\ idq.a.end.date = idq.b.end.date

\* a single-day request and a range request that starts on the same day, the
\* single day written in two ways
C9_Witness ==
    /\ idq.pc = "out"
    /\ idq.ra.ok /\ idq.rb.ok
    /\ idq.a.start.date = idq.a.end.date
    /\ idq.a.start.str # idq.a.end.str
    /\ idq.b.start.date = idq.a.start.date
    /\ idq.b.end.date # idq.b.start.date
    /\ idq.ra.name # idq.rb.name

\* C10: a status poll for an id that has no entry and no report file returns
\* 404 and changes nothing.
C10_NotFound ==
    [][\A task_id \in TaskIds :
          (task_id \notin DOMAIN tasks /\ ~exists(task_id) /\ StatusStep(task_id))
          => /\ resp'.code = 404 /\ resp'.status = "not_found"
             /\ resp'.report_url = <<>>
             /\ tasks' = tasks /\ procs' = procs /\ files' = files
             /\ config' = config]_vars

\* the id was launched, its worker exited without a report file and was
\* reaped or pruned
C10_Witness ==
    /\ resp.op = "status" /\ resp.code = 404
    /\ Len(procs) = 1 /\ procs[1].state = "gone"
    /\ files = {}

\* the credentials of config.json are not both filled in
CredentialsMissing == config.accessToken # Token \/ config.apiKey # ApiKey

\* C11: while the iFind token or the LLM API key is empty or a placeholder, a
\* launch request is answered 400 and changes nothing: no process is spawned,
\* the registry keeps every entry, also those of exited workers, and no file
\* is touched.
C11_PrerequisiteMissing ==
    [][(CredentialsMissing /\ resp'.op = "launch")
          => /\ resp'.code = 400
             /\ tasks' = tasks
             /\ procs' = procs
             /\ files' = files]_vars

\* the request was refused for the empty API key while the registry held the
\* entry of a worker that has exited
C11_Witness ==
    /\ resp.op = "launch" /\ resp.code = 400
    /\ config.accessToken = Token /\ config.apiKey = <<>>
    /\ \E tid \in DOMAIN tasks : procs[tasks[tid].process].state = "exited"

\* the string denotes no date (it is in DateTable with valid = FALSE)
Malformed(str) == \E d \in DateTable : d.str = str /\ ~d.valid

MalformedRequests ==
    { r \in Requests : Malformed(r.startDate) \/ Malformed(r.endDate) }

C13_LaunchFailure ==
    [][\A task_id \in TaskIds :
          /\ (LaunchStep(task_id) /\ resp'.status = "launch_failure")
             => /\ resp'.code = 500
                /\ Len(procs') = Len(procs)
                /\ task_id \notin DOMAIN tasks'
          /\ (/\ resp.status = "launch_failure" /\ resp.task_id = task_id
              /\ StatusStep(task_id))
             => /\ resp'.status \in {"complete", "not_found"}
                /\ resp'.pid = 0
                /\ tasks' = tasks]_vars

\* Popen failed for an id whose earlier worker had exited without a report;
\* the worker of another id is still registered
C13_Witness ==
    /\ resp.op = "launch" /\ resp.status = "launch_failure"
    /\ resp.task_id \notin DOMAIN tasks
    /\ tasks # EmptyTasks
    /\ \E p \in Pids : procs[p].state = "gone"
    /\ ~exists(resp.task_id)

\* the run of the worker script has put its report file into the directory
WorkerWroteArtifact == wrk.task_id \in files

\* C14 as claimed: the worker script exits with status 0 exactly when it has
\* written its report file under the name the supervisor expects.
C14_ExitCodeTellsArtifact ==
    wrk.pc = "exited" => (wrk.returncode = 0 <=> WorkerWroteArtifact)

Url0110 ==
    <<"/reports/", "daily_briefing_", "2", "0", "2", "5", "0", "1", "1", "0", ".html">>

\* the names of the scenario as claimed
IdClaimed == <<"briefing_", "2", "0", "2", "5", "0", "1", "1", "0">>

UrlClaimed == <<"/reports/", "briefing_", "2", "0", "2", "5", "0", "1", "1", "0", ".html">>

\* the registered worker of the id wrote its report and exited with status 0
DoneWell(task_id) ==
    /\ task_id \in DOMAIN tasks
    /\ procs[tasks[task_id].process].state = "exited"
    /\ procs[tasks[task_id].process].returncode = 0
    /\ procs[tasks[task_id].process].wrote

\* C15 (as amended): the accepted launch for 2025-01-10..2025-01-10 returns the
\* id daily_briefing_20250110.html; the same launch repeated at once gets 409;
\* once the worker has written daily_briefing_20250110.html and exited 0, the
\* poll for the id reports complete with /reports/daily_briefing_20250110.html
\* and removes the entry; the poll after that, which finds no entry, reports
\* the same complete result from the reports directory.
C15_Scenario ==
    [][/\ (resp'.code = 202 /\ run_daily_briefing_async(R0110))
             => resp'.task_id = Id0110
       /\ (/\ resp.op = "launch" /\ resp.code = 202 /\ resp.task_id = Id0110
           /\ resp'.op = "launch"
           /\ run_daily_briefing_async(R0110))
             => resp'.code = 409
       /\ (DoneWell(Id0110) /\ StatusStep(Id0110))
             => /\ resp'.code = 200 /\ resp'.status = "complete"
                /\ resp'.report_url = Url0110
                /\ Id0110 \notin DOMAIN tasks'
       /\ (/\ resp.op = "status" /\ resp.task_id = Id0110
           /\ resp.status = "complete"
           /\ Id0110 \notin DOMAIN tasks
           /\ StatusStep(Id0110))
             => /\ resp'.pid = 0
                /\ resp'.code = resp.code
                /\ resp'.status = resp.status
                /\ resp'.report_url = resp.report_url]_vars

\* C15 as claimed: the id is briefing_20250110 and the URL of the report is
\* /reports/briefing_20250110.html.
C15_Original ==
    [][/\ (resp'.code = 202 /\ run_daily_briefing_async(R0110))
             => resp'.task_id = IdClaimed
       /\ (DoneWell(Id0110) /\ StatusStep(Id0110))
             => resp'.report_url = UrlClaimed]_vars

\* the end of the scenario: the one worker has exited and was reaped, and the
\* poll answered complete from the reports directory
C15_Witness ==
    /\ resp.op = "status" /\ resp.task_id = Id0110 /\ resp.pid = 0
    /\ resp.status = "complete" /\ resp.report_url = Url0110
    /\ tasks = EmptyTasks
    /\ Len(procs) = 1 /\ procs[1].state = "gone"
    /\ files = {Id0110}

\* C16: a status poll for an id whose registered worker has not exited
\* reports running with the elapsed time, whether or not the report file is
\* already there, and changes nothing: the entry, the process and the files
\* stay as they are and the handler returns while the worker still runs; the
\* output of a worker appears in a response only when the worker had exited
\* before the poll.
C16_RunningPollHasNoEffect ==
    [][\A task_id \in TaskIds :
          /\ (/\ task_id \in DOMAIN tasks
              /\ procs[tasks[task_id].process].state = "running"
              /\ StatusStep(task_id))
             => /\ resp'.code = 200 /\ resp'.status = "running"
                /\ resp'.pid = tasks[task_id].process
                /\ resp'.elapsed >= 0
                /\ resp'.detail = <<>> /\ resp'.report_url = <<>>
                /\ tasks' = tasks
                /\ procs' = procs
                /\ procs'[resp'.pid].state = "running"
                /\ files' = files
          /\ (StatusStep(task_id) /\ resp'.detail # <<>>)
             => /\ resp'.pid # 0
                /\ procs[resp'.pid].state = "exited"]_vars

\* the poll reported running while the report file of the id was already
\* written and the worker had not exited
C16_Witness ==
    /\ resp.op = "status" /\ resp.status = "running"
    /\ exists(resp.task_id)
    /\ resp.task_id \in DOMAIN tasks
    /\ tasks[resp.task_id].process = resp.pid
    /\ Running(resp.pid) /\ procs[resp.pid].wrote

\* C17: for every pair of well-formed dates the launch endpoint passes on, the
\* name under which the worker saves its report is the task id the endpoint
\* computed for the same two strings, so a report that was written is the
\* file the status endpoint looks for.
C17_FilenameIsTaskId ==
    wrk.filename # <<>>
    => /\ wrk.filename = wrk.task_id
       /\ wrk.env.write_ok => files = {wrk.task_id}

\* the worker saved the report of a single day that the request wrote in two
\* ways, as 2025-01-10 and as 2025-1-10
C17_Witness ==
    /\ wrk.pc = "exited"
    /\ wrk.start_date # wrk.end_date
    /\ wrk.filename = Id0110
    /\ files = {Id0110}

\* the step is a statement of a request handler (not of a worker process)
HandlerStep ==
    \/ \E t \in Threads, ticker \in Tickers : I_Begin(t, ticker)
    \/ \E t \in Threads : I_Locate(t)
    \/ \E c \in Configs : update_config(c)

\* C18 as claimed: no request handler deletes or rewrites a file of the
\* reports directory, and none writes state outside the registry that a
\* request or worker running at the same time reads: config.json is not
\* written while a pipeline that has yet to read it is running.
C18_RegistryOnlySharedState ==
    [][HandlerStep
          => /\ \A f \in DOMAIN ctime :
                   f \in DOMAIN ctime' /\ ctime'[f] = ctime[f]
             /\ config' # config
                   => \A t \in Threads : inv[t].pc # "pipeline"]_vars

LiveWorkers(task_id) == { p \in Pids : LiveFor(p, task_id) }

RunningWorkersRegistered ==
    \A task_id \in TaskIds :
        /\ Cardinality(LiveWorkers(task_id)) <= 1
        /\ \A p \in LiveWorkers(task_id) :
              task_id \in DOMAIN tasks /\ tasks[task_id].process = p

\* C20: with each request handled in one step, after every step of a service
\* process at most one worker it launched for an id is still running and that
\* worker is the one the entry of the id refers to; and a request replaces
\* the process of an entry only when the process it held has exited.
C20_NoOrphanedWorker ==
    [][/\ RunningWorkersRegistered'
       /\ \A task_id \in DOMAIN tasks \cap DOMAIN tasks' :
             tasks'[task_id].process # tasks[task_id].process
                => procs[tasks[task_id].process].state = "exited"]_vars

\* two workers of two ids run, each under the entry of its id
C20_Witness ==
    /\ Len(procs) = 2
    /\ Running(1) /\ Running(2)
    /\ ~procs[1].orphan /\ ~procs[2].orphan
    /\ procs[1].file # procs[2].file
    /\ tasks[procs[1].file].process = 1
    /\ tasks[procs[2].file].process = 2

\* C21 as claimed: when the poll that reaps the worker of an id reports
\* complete, the report file of the id was written by that worker, the last
\* one launched for the id.
C21_FreshArtifact ==
    [][\A task_id \in TaskIds :
          (/\ task_id \in DOMAIN tasks
           /\ StatusStep(task_id)
           /\ resp'.status = "complete")
          => procs[tasks[task_id].process].wrote]_vars

\* the worker has output left to print and the pipe is full
BlockedOnPipe ==
    /\ procs[1].state = "running"
    /\ pipe.todo > 0
    /\ pipe.held = PipeCap

\* C22 as claimed: the service never brings a worker to block on a full
\* output pipe.
C22_NoWorkerBlockedOnPipe == ~BlockedOnPipe

\* C23: a launch request that computed the id X changes the registry in two
\* ways only: entries whose worker has exited may go, and the entry of X may
\* be added or replaced.  The entry of every other id whose worker runs stays
\* as it is, process and start time, and no entry of another id is added or
\* changed.  A status poll for X leaves the entries of all other ids alone.
C23_OtherEntriesUntouched ==
    [][\A X \in TaskIds :
          /\ LaunchStep(X)
             => /\ \A Y \in DOMAIN tasks \ {X} :
                      IF procs[tasks[Y].process].state = "running"
                      THEN Y \in DOMAIN tasks' /\ tasks'[Y] = tasks[Y]
                      ELSE Y \in DOMAIN tasks' => tasks'[Y] = tasks[Y]
                /\ \A Y \in DOMAIN tasks' \ {X} :
                      Y \in DOMAIN tasks /\ tasks'[Y] = tasks[Y]
          /\ StatusStep(X)
             => /\ DOMAIN tasks \ {X} = DOMAIN tasks' \ {X}
                /\ \A Y \in DOMAIN tasks \ {X} : tasks'[Y] = tasks[Y]]_vars

\* the launch of one id was accepted while the worker of another id, started
\* at an earlier reading of the clock, went on under its own entry
C23_Witness ==
    /\ resp.op = "launch" /\ resp.code = 202 /\ resp.pid = 2
    /\ Running(1) /\ ~procs[1].orphan
    /\ procs[1].file # resp.task_id
    /\ DOMAIN tasks = {resp.task_id, procs[1].file}
    /\ tasks[procs[1].file] = [process |-> 1, start_time |-> 0]
    /\ tasks[resp.task_id].start_time = 1

\* C24: no step of the service or of a worker removes a report file, and once
\* the report file of an id is there no status poll for the id is answered
\* 404: the poll reports complete, or running for a worker launched anew
\* that is still running, or error in the poll that reaps such a worker;
\* this over launches, polls, worker exits and restarts of the service.
C24_NeverNotFoundAgain ==
    [][/\ files \subseteq files'
       /\ \A task_id \in TaskIds :
             (task_id \in files /\ StatusStep(task_id))
             => /\ resp'.code = 200
                /\ resp'.status \in {"complete", "running", "error"}
                /\ resp'.status = "running"
                      => /\ task_id \in DOMAIN tasks'
                         /\ procs'[tasks'[task_id].process].state = "running"
                /\ resp'.status = "error"
                      => /\ task_id \in DOMAIN tasks
                         /\ procs[tasks[task_id].process].state = "exited"
                         /\ task_id \notin DOMAIN tasks']_vars

\* the report of an earlier run is there, the worker launched anew for the id
\* has not written its own yet, and the poll reports running
C24_Witness ==
    /\ resp.op = "status" /\ resp.status = "running" /\ resp.pid = 2
    /\ procs[1].state = "gone"
    /\ procs[2].file = resp.task_id /\ ~procs[2].wrote
    /\ resp.task_id \in files

\* C25: the task id is computed from the two dates and not from stockSource.
\* A launch for the day 2025-01-10 resolves to the same id with either stock
\* source; while the registered worker of the id runs, a launch with the
\* other stock source is refused with 409 and spawns nothing; an accepted
\* launch passes its own stock source to a worker that writes the file named
\* by the id; no other report file appears, and a poll that reports complete
\* serves that file.
C25_IdIgnoresStockSource ==
    [][/\ files' \subseteq {Id0110}
       /\ \A request \in SourceRequests :
             (resp'.op = "launch" /\ run_daily_briefing_async(request))
             => /\ resp'.task_id = Id0110
                /\ ( /\ Id0110 \in DOMAIN tasks
                     /\ procs[tasks[Id0110].process].state = "running"
                     /\ procs[tasks[Id0110].process].source # request.stockSource )
                   => /\ resp'.code = 409
                      /\ Len(procs') = Len(procs)
                      /\ tasks'[Id0110] = tasks[Id0110]
                /\ resp'.code = 202
                   => /\ procs'[resp'.pid].source = request.stockSource
                      /\ procs'[resp'.pid].file = Id0110
       /\ (StatusStep(Id0110) /\ resp'.status = "complete")
             => resp'.report_url = Url0110]_vars

\* two workers launched for the same day with different stock sources have
\* both written the one file, and the poll for the id finds the second
\* running
C25_Witness ==
    /\ Len(procs) = 2
    /\ procs[1].source # procs[2].source
    /\ procs[1].file = Id0110 /\ procs[2].file = Id0110
    /\ procs[1].wrote /\ procs[2].wrote
    /\ files = {Id0110}
    /\ resp.op = "status" /\ resp.task_id = Id0110 /\ resp.pid = 2

\* C26 as claimed: the URL a successful investment-report request returns
\* names the report its own pipeline run produced, whatever else is written
\* into the reports directory between the end of the pipeline and the lookup
\* of the latest file.
C26_OwnReportReturned ==
    [][\A t \in Threads :
          (inv[t].pc = "locate" /\ inv'[t].pc = "idle" /\ resp'.code = 200)
          => resp'.report_url
                = <<"/investment_reports/">> \o ReportName(inv[t].read)]_vars

\* C27 as claimed: the pipeline an investment-report request starts reads from
\* config.json the ticker that this request wrote there.
C27_PipelineReadsOwnRequest ==
    \A t \in Threads :
        inv[t].pc \in {"analysed", "locate"} => inv[t].read = inv[t].ticker

=============================================================================
